---- MODULE Spec2Model ----
(***************************************************************************)
(* The sortable 80s music table of src/src/script.ts: the module state     *)
(* (currentSortColumn, currentSortOrder), the address bar and the session  *)
(* history it is written to, the elements of the page the script reads and *)
(* writes, and the handlers that run on DOMContentLoaded, on a click and   *)
(* on a key press on a column header.                                      *)
(*                                                                         *)
(* Strings that are compared by localeCompare (song and artist names) are  *)
(* sequences of collation weights, one natural number per letter           *)
(* (a = 1 ... z = 26).  An absent value (JavaScript null returned by       *)
(* URLSearchParams.get) is the empty sequence <<>>, a present value v is   *)
(* <<v>>.  A query string is the list of its (name, value) pairs in order; *)
(* all names and values used are plain lower/upper case words, for which   *)
(* serialising a URL and parsing it again gives back the same list.        *)
(***************************************************************************)
EXTENDS Integers, Sequences, FiniteSets, Bags, TLC

\* ---------------------------------------------------------------- bounds

\* user activations that reach sortByColumn in one session
MaxToggles == 2
\* calls of updateSortURL in a row when the function is exercised on its own
MaxCalls == 2
\* activations in one session of the complete page
MaxRepeats == 4
\* elements of the page that may be absent from the document
MaxMissing == 1

\* ---------------------------------------------------------------- types

\* type SortColumn = 'song' | 'artist' | 'year'
SortColumn == {"song", "artist", "year"}

\* the `null` of `SortColumn | null`
Null == "null"

\* type SortOrder = 'none' | 'asc' | 'desc'
SortOrder == {"none", "asc", "desc"}

\* const validColumns: SortColumn[] = ['song', 'artist', 'year']
validColumns == {"song", "artist", "year"}

\* const validOrders: ('asc' | 'desc')[] = ['asc', 'desc']
validOrders == {"asc", "desc"}

\* interface Song { name: string; artist: string; year: number }
Song(name, artist, year) == [name |-> name, artist |-> artist, year |-> year]

\* ---------------------------------------------------------------- data

BillieJean == <<2, 9, 12, 12, 9, 5>>
SweetChildOMine == <<19, 23, 5, 5, 20>>
LivinOnAPrayer == <<12, 9, 22, 9, 14>>
MichaelJackson == <<13, 9, 3, 8>>
GunsNRoses == <<7, 21, 14, 19>>
BonJovi == <<2, 15, 14>>
Africa == <<1, 6, 18>>
Rosanna == <<18, 15, 19>>
Angel == <<1, 14>>
Angels == <<1, 14, 7>>
Toto == <<20, 15>>
Madonna == <<13, 1>>

\* export const songs: Song[] -- the three records every version of the data
\* module carries
songsJson ==
    << Song(BillieJean, MichaelJackson, 1982),
       Song(SweetChildOMine, GunsNRoses, 1987),
       Song(LivinOnAPrayer, BonJovi, 1986) >>

\* Other contents songs.json may have: records sharing a year, an artist or
\* a name, a name that is a prefix of another, years outside 1980-1989 (the
\* range is documented, not enforced), one of them with fewer digits, a
\* record listed twice, no record, and
\* a list that does not have the Song shape, which only the compiler checks:
\* one record without its year (with one record no compare function is ever
\* called on the missing field).
DataStores ==
    { songsJson,
      << Song(Rosanna, Toto, 1982),
         Song(Africa, Toto, 1982),
         Song(Angels, Madonna, 1991),
         Song(Angel, Madonna, 979),
         Song(Rosanna, Toto, 1982) >>,
      << >>,
      << [name |-> BillieJean, artist |-> MichaelJackson] >> }

\* ---------------------------------------------------------------- the page

TBODY == "songs-tbody"
ANNOUNCEMENTS == "sort-announcements"
TABLE == "songs-table"

\* document.getElementById(`sort-${column}-header`)
HeaderId(column) ==
    CASE column = "song" -> "sort-song-header"
      [] column = "artist" -> "sort-artist-header"
      [] column = "year" -> "sort-year-header"

\* header.querySelector('.sort-indicator')
IndicatorId(column) ==
    CASE column = "song" -> "sort-song-header .sort-indicator"
      [] column = "artist" -> "sort-artist-header .sort-indicator"
      [] column = "year" -> "sort-year-header .sort-indicator"

Elements ==
    {TBODY, ANNOUNCEMENTS, TABLE}
        \cup {HeaderId(c) : c \in SortColumn}
        \cup {IndicatorId(c) : c \in SortColumn}

\* table.classList.remove('sorting-year', 'sorting-song', 'sorting-artist')
SortingClasses == {"sorting-year", "sorting-song", "sorting-artist"}

\* `sorting-${column}`
SortingClass(column) ==
    CASE column = "song" -> "sorting-song"
      [] column = "artist" -> "sorting-artist"
      [] column = "year" -> "sorting-year"

\* tbody.innerHTML before renderTable has ever assigned it
Unrendered == << <<"unrendered">> >>

\* ---------------------------------------------------------------- comparing

Sign(n) == IF n < 0 THEN -1 ELSE IF n > 0 THEN 1 ELSE 0

\* String.prototype.localeCompare on words of letters: the first position at
\* which the collation weights differ decides; a proper prefix sorts first.
RECURSIVE LocaleCompare(_, _)
LocaleCompare(a, b) ==
    IF a = <<>> /\ b = <<>> THEN 0
    ELSE IF a = <<>> THEN -1
    ELSE IF b = <<>> THEN 1
    ELSE IF Head(a) # Head(b) THEN Sign(Head(a) - Head(b))
    ELSE LocaleCompare(Tail(a), Tail(b))

\* const property: keyof Song = column === 'song' ? 'name' : 'artist'
Property(column) == IF column = "song" THEN "name" ELSE "artist"

\* The comparators with the descending ones written like the ascending ones.
ComparatorAscOnly(a, b, column, order) ==
    IF column = "year"
    THEN a.year - b.year
    ELSE LocaleCompare(a[Property(column)], b[Property(column)])

\* String(year): the decimal digits of a year that is not negative.
RECURSIVE Digits(_)
Digits(n) == IF n < 10 THEN <<n>> ELSE Append(Digits(n \div 10), n % 10)

\* The comparators with the years compared as text, like the other two
\* columns.
ComparatorYearAsText(a, b, column, order) ==
    IF column = "year"
    THEN IF order = "asc"
         THEN LocaleCompare(Digits(a.year), Digits(b.year))
         ELSE LocaleCompare(Digits(b.year), Digits(a.year))
    ELSE IF order = "asc"
         THEN LocaleCompare(a[Property(column)], b[Property(column)])
         ELSE LocaleCompare(b[Property(column)], a[Property(column)])

\* The year comparators with their directions exchanged.
ComparatorYearSwapped(a, b, column, order) ==
    IF column = "year"
    THEN IF order = "asc" THEN b.year - a.year ELSE a.year - b.year
    ELSE IF order = "asc"
         THEN LocaleCompare(a[Property(column)], b[Property(column)])
         ELSE LocaleCompare(b[Property(column)], a[Property(column)])

\* The four comparators handed to Array.prototype.sort:
\*   (a, b) => a.year - b.year            (a, b) => b.year - a.year
\*   (a, b) => a[p].localeCompare(b[p])   (a, b) => b[p].localeCompare(a[p])
Comparator(a, b, column, order) ==
    IF column = "year"
    THEN IF order = "asc" THEN a.year - b.year ELSE b.year - a.year
    ELSE IF order = "asc"
         THEN LocaleCompare(a[Property(column)], b[Property(column)])
         ELSE LocaleCompare(b[Property(column)], a[Property(column)])

Front(s) == SubSeq(s, 1, Len(s) - 1)
Last(s) == s[Len(s)]

\* An insertion that drops an element comparing equal to one already placed.
RECURSIVE InsertUnique(_, _, _, _)
InsertUnique(sorted, x, column, order) ==
    IF sorted = <<>> THEN <<x>>
    ELSE IF Comparator(Last(sorted), x, column, order) > 0
         THEN Append(InsertUnique(Front(sorted), x, column, order), Last(sorted))
         ELSE IF Comparator(Last(sorted), x, column, order) = 0 THEN sorted
         ELSE Append(sorted, x)

\* One insertion of the stable sort: x goes behind every element that does
\* not compare greater than it.
RECURSIVE Insert(_, _, _, _)
Insert(sorted, x, column, order) ==
    IF sorted = <<>> THEN <<x>>
    ELSE IF Comparator(Last(sorted), x, column, order) > 0
         THEN Append(Insert(Front(sorted), x, column, order), Last(sorted))
         ELSE Append(sorted, x)

\* Array.prototype.sort(compareFn): a stable sort (ECMAScript 2019), elements
\* that compare equal keep the order they had in the array sorted.
RECURSIVE ArraySort(_, _, _)
ArraySort(array, column, order) ==
    IF array = <<>> THEN <<>>
    ELSE Insert(ArraySort(Front(array), column, order), Last(array), column, order)

\* The descending view made by reversing the ascending one.
SortSongsReversing(store, column, order) ==
    LET ascending == ArraySort(store, column, "asc")
    IN  [store |-> store,
         sortedSongs |->
             IF order = "asc" THEN ascending
             ELSE [i \in 1..Len(ascending) |-> ascending[Len(ascending) + 1 - i]]]

\* songs.sort(compareFn), without the spread: the imported array is ordered.
SortSongsInPlace(store, column, order) ==
    [store |-> ArraySort(store, column, order),
     sortedSongs |-> ArraySort(store, column, order)]

\* [...songs].sort(compareFn): the spread makes a new array, sort() orders
\* that array in place and returns it.  `store` is the songs array as the
\* statement leaves it, `sortedSongs` the array the statement evaluates to.
SortSongs(store, column, order) ==
    [store |-> store, sortedSongs |-> ArraySort(store, column, order)]

\* `${song.name}`: the property's value as text; a property the object does
\* not have is undefined, which the template shows as the word undefined.
Interpolate(song, property) ==
    IF property \in DOMAIN song THEN song[property] ELSE "undefined"

\* renderTable: one <tr> per song, in the order given, its three <td> cells
\* holding name, artist and year.
RenderTable(songsData) ==
    [i \in 1..Len(songsData) |->
        << Interpolate(songsData[i], "name"),
           Interpolate(songsData[i], "artist"),
           Interpolate(songsData[i], "year") >>]

\* ---------------------------------------------------------------- the URL

\* URLSearchParams.get(name): the value of the first pair of that name,
\* <<>> for null.
SearchParamsGet(search, name) ==
    LET at == {i \in DOMAIN search : search[i][1] = name}
    IN  IF at = {} THEN <<>>
        ELSE <<search[CHOOSE i \in at : \A j \in at : i <= j][2]>>

\* URLSearchParams.delete(name): every pair of that name goes.
SearchParamsDelete(search, name) ==
    SelectSeq(search, LAMBDA p : p[1] # name)

\* URLSearchParams.append in the place of set: earlier pairs of the name stay.
SearchParamsAppend(search, name, value) == Append(search, <<name, value>>)

\* URLSearchParams.set(name, value): the first pair of that name takes the
\* value and the other pairs of that name go; without one, a pair is appended.
SearchParamsSet(search, name, value) ==
    LET at == {i \in DOMAIN search : search[i][1] = name}
    IN  IF at = {} THEN Append(search, <<name, value>>)
        ELSE LET first == CHOOSE i \in at : \A j \in at : i <= j
             IN  SubSeq(search, 1, first - 1)
                    \o << <<name, value>> >>
                    \o SearchParamsDelete(SubSeq(search, first + 1, Len(search)), name)

\* parseSortFromURL with the order left unvalidated.
ParseSortAnyOrder(search) ==
    LET column == SearchParamsGet(search, "sort")
        got == SearchParamsGet(search, "order")
        order == IF got = <<>> \/ got = <<"">> THEN "asc" ELSE got[1]
    IN  IF column # <<>> /\ column[1] \in validColumns
        THEN [column |-> column[1], order |-> order]
        ELSE [column |-> Null, order |-> "asc"]

\* parseSortFromURL with `??` in the place of `||`: only null is defaulted.
ParseSortNullish(search) ==
    LET column == SearchParamsGet(search, "sort")
        got == SearchParamsGet(search, "order")
        order == IF got = <<>> THEN "asc" ELSE got[1]
    IN  IF column # <<>> /\ column[1] \in validColumns /\ order \in validOrders
        THEN [column |-> column[1], order |-> order]
        ELSE [column |-> Null, order |-> "asc"]

\* parseSortFromURL, of window.location.search
ParseSortFromURL(search) ==
    LET column == SearchParamsGet(search, "sort")
        got == SearchParamsGet(search, "order")
        \* params.get('order') || 'asc': null and '' are falsy
        order == IF got = <<>> \/ got = <<"">> THEN "asc" ELSE got[1]
    IN  IF /\ column # <<>>
           /\ column # <<"">>
           /\ column[1] \in validColumns
           /\ order \in validOrders
        THEN [column |-> column[1], order |-> order]
        ELSE [column |-> Null, order |-> "asc"]

\* The URL built with only the column written, the order parameter left as
\* it was.
SortURLColumnOnly(location, column, order) ==
    IF column # Null /\ order # ""
    THEN [location EXCEPT !.search = SearchParamsSet(location.search, "sort", column)]
    ELSE [location EXCEPT
            !.search = SearchParamsDelete(
                           SearchParamsDelete(location.search, "sort"),
                           "order")]

\* updateSortURL assigning url.search a query string of its own making: the
\* other parameters are lost.
SortURLFresh(location, column, order) ==
    IF column # Null /\ order # ""
    THEN [location EXCEPT !.search = << <<"sort", column>>, <<"order", order>> >>]
    ELSE [location EXCEPT !.search = << >>]

\* updateSortURL without its else branch: a null column leaves the query
\* string as it is.
SortURLNeverDeletes(location, column, order) ==
    IF column # Null /\ order # ""
    THEN [location EXCEPT
            !.search = SearchParamsSet(
                           SearchParamsSet(location.search, "sort", column),
                           "order", order)]
    ELSE location

\* The URL object updateSortURL builds from window.location.href and hands
\* to history.pushState.
SortURL(location, column, order) ==
    IF column # Null /\ order # ""
    THEN [location EXCEPT
            !.search = SearchParamsSet(
                           SearchParamsSet(location.search, "sort", column),
                           "order", order)]
    ELSE [location EXCEPT
            !.search = SearchParamsDelete(
                           SearchParamsDelete(location.search, "sort"),
                           "order")]

\* history.replaceState in the place of pushState: the current entry is
\* overwritten and no entry is added.
ReplaceState(entries, index, url) ==
    [entries |-> [entries EXCEPT ![index] = url], index |-> index]

\* history.pushState({}, '', url): the entries after the current one are
\* dropped, the new entry is added and becomes the current one.
PushState(entries, index, url) ==
    [entries |-> Append(SubSeq(entries, 1, index), url), index |-> index + 1]

\* ---------------------------------------------------------------- state

VARIABLES
    phase,              \* "loading" until DOMContentLoaded has run, then "ready"
    present,            \* the elements the document holds
    listeners,          \* columns whose header carries the click/keydown listeners
    songs,              \* the imported songs array
    currentSortOrder,   \* let currentSortOrder: SortOrder = 'none'
    currentSortColumn,  \* let currentSortColumn: SortColumn | null = null
    entries,            \* the session history: the URL of each entry
    index,              \* the current entry; entries[index] is window.location
    ariaSort,           \* aria-sort of each column header
    indicator,          \* textContent of each header's .sort-indicator
    classList,          \* the sorting-* classes of the table element
    announcement,       \* textContent of the live region
    rows,               \* the rows of the table body, as renderTable left them
    log                 \* columns of the user activations that sorted, in order

vars ==
    << phase, present, listeners, songs, currentSortOrder, currentSortColumn,
       entries, index, ariaSort, indicator, classList, announcement, rows, log >>

\* Query strings the page may be opened with.
InitialQueries ==
    { << >>,
      << <<"sort", "song">> >>,
      << <<"sort", "song">>, <<"order", "desc">> >>,
      << <<"sort", "artist">>, <<"order", "asc">> >>,
      << <<"sort", "artist">>, <<"order", "desc">> >>,
      << <<"sort", "year">>, <<"order", "asc">> >>,
      << <<"order", "desc">>, <<"sort", "year">> >>,
      << <<"sort", "bogus">> >>,
      << <<"sort", "Year">>, <<"order", "asc">> >>,
      << <<"order", "desc">> >>,
      << <<"sort", "year">>, <<"order", "bogus">> >>,
      << <<"sort", "year">>, <<"order", "">> >>,
      << <<"sort", "bogus">>, <<"sort", "year">>, <<"order", "desc">> >>,
      << <<"sort", "song">>, <<"order", "bogus">>, <<"order", "desc">> >>,
      << <<"page", "2">>, <<"sort", "artist">>, <<"order", "DESC">>, <<"q", "a">> >> }

\* window.location when the page is opened
InitialLocation(search) ==
    [origin |-> "http://localhost:3000", pathname |-> "/index.html", search |-> search]

\* The elements left in a document from which `removed` were taken out: an
\* indicator lives inside its header and goes with it.
Document(removed) ==
    Elements \ (removed \cup {IndicatorId(c) : c \in {d \in SortColumn : HeaderId(d) \in removed}})

\* The script rendering the imported songs when the module is evaluated,
\* outside the DOMContentLoaded listener.
InitRenderedAtImport ==
    /\ phase = "loading"
    /\ \E removed \in SUBSET Elements :
          /\ Cardinality(removed) <= MaxMissing
          /\ present = Document(removed)
    /\ listeners = {}
    /\ songs \in DataStores
    /\ currentSortOrder = "none"
    /\ currentSortColumn = Null
    /\ \E search \in InitialQueries : entries = <<InitialLocation(search)>>
    /\ index = 1
    /\ ariaSort = [c \in SortColumn |-> "none"]
    /\ indicator = [c \in SortColumn |-> ""]
    /\ classList = {}
    /\ announcement = << >>
    /\ rows = IF TBODY \in present THEN RenderTable(songs) ELSE Unrendered
    /\ log = << >>

Init ==
    /\ phase = "loading"
    /\ \E removed \in SUBSET Elements :
          /\ Cardinality(removed) <= MaxMissing
          /\ present = Document(removed)
    /\ listeners = {}
    /\ songs \in DataStores
    /\ currentSortOrder = "none"
    /\ currentSortColumn = Null
    /\ \E search \in InitialQueries : entries = <<InitialLocation(search)>>
    /\ index = 1
    /\ ariaSort = [c \in SortColumn |-> "none"]
    /\ indicator = [c \in SortColumn |-> ""]
    /\ classList = {}
    /\ announcement = << >>
    /\ rows = Unrendered
    /\ log = << >>

\* The part of the state the functions of the script read and write.
Page ==
    [ songs |-> songs,
      currentSortOrder |-> currentSortOrder,
      currentSortColumn |-> currentSortColumn,
      entries |-> entries,
      index |-> index,
      ariaSort |-> ariaSort,
      indicator |-> indicator,
      classList |-> classList,
      announcement |-> announcement,
      rows |-> rows ]

Becomes(s) ==
    /\ songs' = s.songs
    /\ currentSortOrder' = s.currentSortOrder
    /\ currentSortColumn' = s.currentSortColumn
    /\ entries' = s.entries
    /\ index' = s.index
    /\ ariaSort' = s.ariaSort
    /\ indicator' = s.indicator
    /\ classList' = s.classList
    /\ announcement' = s.announcement
    /\ rows' = s.rows

\* ---------------------------------------------------------------- functions

\* updateSortURL(column, order)
UpdateSortURL(s, column, order) ==
    LET pushed == PushState(s.entries, s.index,
                            SortURL(s.entries[s.index], column, order))
    IN  [s EXCEPT !.entries = pushed.entries, !.index = pushed.index]

\* resetOtherColumns resetting aria-sort only, the arrows left in place.
ResetOtherColumnsAriaOnly(s, activeColumn) ==
    [s EXCEPT
        !.ariaSort = [c \in SortColumn |->
            IF c # activeColumn /\ HeaderId(c) \in present
            THEN "none" ELSE s.ariaSort[c]]]

\* resetOtherColumns(activeColumn)
ResetOtherColumns(s, activeColumn) ==
    [s EXCEPT
        !.ariaSort = [c \in SortColumn |->
            IF c # activeColumn /\ HeaderId(c) \in present
            THEN "none" ELSE s.ariaSort[c]],
        !.indicator = [c \in SortColumn |->
            IF c # activeColumn /\ HeaderId(c) \in present /\ IndicatorId(c) \in present
            THEN "" ELSE s.indicator[c]]]

\* updateTableClasses without the classList.remove: the classes pile up.
UpdateTableClassesAddOnly(classes, column) ==
    classes \cup {SortingClass(column)}

\* updateTableClasses(table, column)
UpdateTableClasses(classes, column) ==
    (classes \ SortingClasses) \cup {SortingClass(column)}

\* NewOrder with the column test left out: the direction flips whatever
\* column it was last used on.
NewOrderAnyColumn(column, sortColumn, sortOrder) ==
    IF sortOrder = "asc" THEN "desc" ELSE "asc"

\* NewOrder without the toggle: every activation sorts ascending.
NewOrderAlwaysAsc(column, sortColumn, sortOrder) == "asc"

\* NewOrder that never leaves descending: asc -> desc -> desc.
NewOrderStaysDescending(column, sortColumn, sortOrder) ==
    IF sortColumn = column /\ (sortOrder = "asc" \/ sortOrder = "desc")
    THEN "desc" ELSE "asc"

\* NewOrder as a three-phase cycle asc -> desc -> none.
NewOrderThreePhase(column, sortColumn, sortOrder) ==
    IF sortColumn = column /\ sortOrder = "asc" THEN "desc"
    ELSE IF sortColumn = column /\ sortOrder = "desc" THEN "none"
    ELSE "asc"

\* Determine new sort order (toggle or start with ascending)
NewOrder(column, sortColumn, sortOrder) ==
    IF sortColumn = column /\ sortOrder = "asc" THEN "desc" ELSE "asc"

\* sortIndicator.textContent: a blank and an up arrow, or a blank and a down
\* arrow
Arrow(order) == IF order = "asc" THEN " up" ELSE " down"

\* const displayName = column === 'song' ? 'song name' : 'artist name'
DisplayName(column) == IF column = "song" THEN "song name" ELSE "artist name"

\* sortDescription with the ascending text pasted into the descending
\* branches.
SortDescriptionPasted(column, order) ==
    IF column = "year"
    THEN <<"Table sorted by ", "release year", " in ", "ascending", " order",
           " (1980-1989)">>
    ELSE <<"Table sorted by ", DisplayName(column), " in ", "ascending", " order">>

\* sortDescription, as the pieces the text is made of: the four literals
\*   'Table sorted by release year in ascending order (1980-1989)'
\*   'Table sorted by release year in descending order (1989-1980)'
\*   `Table sorted by ${displayName} in ascending order`
\*   `Table sorted by ${displayName} in descending order`
SortDescription(column, order) ==
    IF column = "year"
    THEN IF order = "asc"
         THEN <<"Table sorted by ", "release year", " in ", "ascending", " order",
                " (1980-1989)">>
         ELSE <<"Table sorted by ", "release year", " in ", "descending", " order",
                " (1989-1980)">>
    ELSE IF order = "asc"
         THEN <<"Table sorted by ", DisplayName(column), " in ", "ascending", " order">>
         ELSE <<"Table sorted by ", DisplayName(column), " in ", "descending", " order">>

\* if (!tbody || !announcements || !table) return;  ...  if (!sortHeader) return;
RunsToCompletion(column) ==
    {TBODY, ANNOUNCEMENTS, TABLE, HeaderId(column)} \subseteq present

\* sortByColumn(column), from the state s
SortByColumn(s, column) ==
    IF ~ ({TBODY, ANNOUNCEMENTS, TABLE} \subseteq present) THEN s
    ELSE
    LET reset == ResetOtherColumns(s, column)
        classed == [reset EXCEPT !.classList = UpdateTableClasses(@, column)]
    IN  IF HeaderId(column) \notin present THEN classed
        ELSE
        LET newOrder == NewOrder(column, classed.currentSortColumn,
                                 classed.currentSortOrder)
            sorted == SortSongs(classed.songs, column, newOrder)
            stated == [classed EXCEPT
                          !.songs = sorted.store,
                          !.indicator[column] =
                              IF IndicatorId(column) \in present
                              THEN Arrow(newOrder) ELSE @,
                          !.currentSortOrder = newOrder,
                          !.currentSortColumn = column,
                          !.ariaSort[column] =
                              IF newOrder = "asc" THEN "ascending" ELSE "descending"]
            pushed == UpdateSortURL(stated, column, newOrder)
        IN  [pushed EXCEPT
                !.announcement = SortDescription(column, newOrder),
                !.rows = RenderTable(sorted.sortedSongs)]

\* The priming with the column left null in the descending branch as well.
PrimedWithoutColumn(s, urlSort) ==
    IF urlSort.order = "desc"
    THEN [s EXCEPT !.currentSortOrder = "asc", !.currentSortColumn = Null]
    ELSE [s EXCEPT !.currentSortOrder = "desc", !.currentSortColumn = Null]

\* The state the load handler sets up before its sortByColumn call.
Primed(s, urlSort) ==
    IF urlSort.order = "desc"
    THEN [s EXCEPT !.currentSortOrder = "asc", !.currentSortColumn = urlSort.column]
    ELSE [s EXCEPT !.currentSortOrder = "desc", !.currentSortColumn = Null]

\* The else branch also clearing the sort parameters it could not use from
\* the address bar.
RenderUnsortedCleansURL(s) ==
    LET cleaned == UpdateSortURL(s, Null, "none")
    IN  [cleaned EXCEPT
            !.classList = IF TABLE \in present THEN @ \ SortingClasses ELSE @,
            !.rows = IF TBODY \in present THEN RenderTable(s.songs) ELSE @]

\* The else branch with a default sort by song name applied.
RenderSortedByName(s) ==
    [s EXCEPT
        !.classList = IF TABLE \in present THEN @ \ SortingClasses ELSE @,
        !.rows = IF TBODY \in present
                 THEN RenderTable(ArraySort(s.songs, "song", "asc")) ELSE @]

\* The else branch of the load handler: render the songs as imported.
RenderUnsorted(s) ==
    [s EXCEPT
        !.classList = IF TABLE \in present THEN @ \ SortingClasses ELSE @,
        !.rows = IF TBODY \in present THEN RenderTable(s.songs) ELSE @]

\* attachColumnEvents without its null check: addEventListener on the first
\* header that is not found throws, and the columns after it get no listener.
AttachUntilMissing ==
    IF HeaderId("song") \notin present THEN {}
    ELSE IF HeaderId("artist") \notin present THEN {"song"}
    ELSE IF HeaderId("year") \notin present THEN {"song", "artist"}
    ELSE SortColumn

\* attachColumnEvents for the three columns: a header that is not found gets
\* no listener.
AttachColumnEvents == {c \in SortColumn : HeaderId(c) \in present}

\* ---------------------------------------------------------------- actions

\* document.addEventListener('DOMContentLoaded', ...)
DOMContentLoaded ==
    /\ phase = "loading"
    /\ phase' = "ready"
    /\ listeners' = AttachColumnEvents
    /\ LET urlSort == ParseSortFromURL(entries[index].search)
       IN  IF urlSort.column # Null
           THEN Becomes(SortByColumn(Primed(Page, urlSort), urlSort.column))
           ELSE Becomes(RenderUnsorted(Page))
    /\ UNCHANGED << present, log >>

\* What a listener's call of sortByColumn(column) does, in a session of at
\* most `limit` activations that sort.
Listener(column, limit) ==
    /\ phase = "ready"
    /\ column \in listeners
    /\ Len(log) < limit
    /\ Becomes(SortByColumn(Page, column))
    /\ log' = IF RunsToCompletion(column) THEN Append(log, column) ELSE log
    /\ UNCHANGED << phase, present, listeners >>

Activate(column) == Listener(column, MaxToggles)

\* sortHeader.addEventListener('click', () => sortByColumn(column))
Click(column) == Activate(column)

Keys == {"Enter", " ", "Tab"}

\* The keydown listener reacting to Enter alone.
KeyDownEnterOnly(s, column, key) ==
    IF key = "Enter" THEN SortByColumn(s, column) ELSE s

\* The keydown listener of a header: Enter and Space call sortByColumn, any
\* other key falls through the if and leaves the page as it is.
KeyDownListener(s, column, key) ==
    IF key = "Enter" \/ key = " " THEN SortByColumn(s, column) ELSE s

\* sortHeader.addEventListener('keydown', ...): a key pressed on the header.
KeyDown(column, key) ==
    /\ phase = "ready"
    /\ column \in listeners
    /\ (key = "Enter" \/ key = " ") => Len(log) < MaxToggles
    /\ Becomes(KeyDownListener(Page, column, key))
    /\ log' = IF (key = "Enter" \/ key = " ") /\ RunsToCompletion(column)
              THEN Append(log, column) ELSE log
    /\ UNCHANGED << phase, present, listeners >>

\* The back button with a popstate listener that takes the sort state from
\* the entry gone back to.
BackWithPopstate ==
    /\ phase = "ready"
    /\ index > 1
    /\ index' = index - 1
    /\ currentSortColumn' = ParseSortFromURL(entries[index - 1].search).column
    /\ currentSortOrder' = ParseSortFromURL(entries[index - 1].search).order
    /\ UNCHANGED << phase, present, listeners, songs, entries, ariaSort,
                    indicator, classList, announcement, rows, log >>

\* The browser's back button within the entries of this document: no
\* popstate listener is registered, only window.location changes.
Back ==
    /\ phase = "ready"
    /\ index > 1
    /\ index' = index - 1
    /\ UNCHANGED << phase, present, listeners, songs, currentSortOrder,
                    currentSortColumn, entries, ariaSort, indicator, classList,
                    announcement, rows, log >>

\* The browser's forward button.
Forward ==
    /\ phase = "ready"
    /\ index < Len(entries)
    /\ index' = index + 1
    /\ UNCHANGED << phase, present, listeners, songs, currentSortOrder,
                    currentSortColumn, entries, ariaSort, indicator, classList,
                    announcement, rows, log >>

Next ==
    \/ DOMContentLoaded
    \/ \E column \in SortColumn : Click(column)
    \/ \E column \in SortColumn, key \in Keys : KeyDown(column, key)
    \/ Back
    \/ Forward

Spec == Init /\ [][Next]_vars

\* ------------------------------------------- updateSortURL on its own

\* The values updateSortURL(column: SortColumn | null, order: string) may be
\* called with: a column or null, a direction or the empty string.
ColumnArguments == SortColumn \cup {Null}
OrderArguments == {"asc", "desc", ""}

\* The page at any of the addresses, nothing else of it in use; log records
\* the arguments of the calls made.
InitURL ==
    /\ phase = "call"
    /\ present = Elements
    /\ listeners = {}
    /\ songs = songsJson
    /\ currentSortOrder = "none"
    /\ currentSortColumn = Null
    /\ \E search \in InitialQueries : entries = <<InitialLocation(search)>>
    /\ index = 1
    /\ ariaSort = [c \in SortColumn |-> "none"]
    /\ indicator = [c \in SortColumn |-> ""]
    /\ classList = {}
    /\ announcement = << >>
    /\ rows = Unrendered
    /\ log = << >>

\* One call updateSortURL(column, order).
CallUpdateSortURL(column, order) ==
    /\ phase = "call"
    /\ Len(log) < MaxCalls
    /\ Becomes(UpdateSortURL(Page, column, order))
    /\ log' = Append(log, <<column, order>>)
    /\ UNCHANGED << phase, present, listeners >>

NextURL ==
    \E column \in ColumnArguments, order \in OrderArguments :
        CallUpdateSortURL(column, order)

SpecURL == InitURL /\ [][NextURL]_vars

\* ------------------------------------------- longer sessions, complete page

\* The page with every element in the document.
InitComplete == Init /\ present = Elements

\* A click on the header of a column, in a session of up to MaxRepeats.
Repeat(column) == Listener(column, MaxRepeats)

NextComplete ==
    \/ DOMContentLoaded
    \/ \E column \in SortColumn : Repeat(column)

SpecComplete == InitComplete /\ [][NextComplete]_vars

\* ---------------------------------------------------------------- properties

\* The query string the page was opened with.
LoadSearch == entries[1].search

\* The load handler has run and no activation has sorted since.
JustLoaded == phase = "ready" /\ log = << >>

\* The page was opened without a usable sort state.
LoadedUnsorted == ParseSortFromURL(LoadSearch).column = Null

\* The row a song is shown as.
RowOf(song) ==
    << Interpolate(song, "name"), Interpolate(song, "artist"),
       Interpolate(song, "year") >>

\* The cell of a row that a column sorts on.
Cell(column) ==
    CASE column = "song" -> 1 [] column = "artist" -> 2 [] column = "year" -> 3

KeyLeq(x, y, column) ==
    IF column = "year" THEN x <= y ELSE LocaleCompare(x, y) <= 0

\* The rows r are in the given direction on the given column.
InOrder(r, column, order) ==
    \A i, j \in DOMAIN r :
        i < j =>
            IF order = "asc"
            THEN KeyLeq(r[i][Cell(column)], r[j][Cell(column)], column)
            ELSE KeyLeq(r[j][Cell(column)], r[i][Cell(column)], column)

\* How often each element occurs in a sequence.
Multiset(q) ==
    [x \in {q[i] : i \in DOMAIN q} |-> Cardinality({i \in DOMAIN q : q[i] = x})]

\* The state has an active column.
Active == currentSortColumn \in SortColumn /\ currentSortOrder \in validOrders

\* C1: an activation of column c that sorts leaves the state (c, desc) exactly
\* when the state before it was (c, asc), and (c, asc) in every other case:
\* no column active, another column active in either direction, c descending.
C1_ToggleDirection ==
    [][\A c \in SortColumn :
          log' = Append(log, c) =>
              /\ currentSortColumn' = c
              /\ (currentSortColumn = c /\ currentSortOrder = "asc")
                    => currentSortOrder' = "desc"
              /\ ~ (currentSortColumn = c /\ currentSortOrder = "asc")
                    => currentSortOrder' = "asc"]_vars

\* year was loaded descending, song was activated, year was activated again:
\* year is ascending, its earlier direction is not remembered.
C1_Witness ==
    /\ ParseSortFromURL(LoadSearch) = [column |-> "year", order |-> "desc"]
    /\ log = <<"song", "year">>
    /\ currentSortColumn = "year"
    /\ currentSortOrder = "asc"

\* C2: two activations of column c in succession from the unsorted state show
\* the rows of the songs sorted by c descending.
C2_TwiceIsDescending ==
    \A c \in SortColumn :
        (phase = "ready" /\ LoadedUnsorted /\ log = <<c, c>>) =>
            /\ currentSortColumn = c
            /\ currentSortOrder = "desc"
            /\ rows = RenderTable(ArraySort(songs, c, "desc"))
            /\ InOrder(rows, c, "desc")

C2_Witness ==
    /\ LoadedUnsorted
    /\ log = <<"year", "year">>
    /\ songs = songsJson
    /\ rows = <<RowOf(songs[2]), RowOf(songs[3]), RowOf(songs[1])>>

\* C3: whatever the address bar holds, updateSortURL(c, d) followed by
\* parseSortFromURL gives {column: c, order: d}, for every column c and
\* direction d.
C3_RoundTrip ==
    \A c \in SortColumn, d \in validOrders :
        LET written == UpdateSortURL(Page, c, d)
        IN  ParseSortFromURL(written.entries[written.index].search)
                = [column |-> c, order |-> d]

\* A toggle wrote artist/asc over ?sort=bogus&sort=year&order=desc.
C3_Witness ==
    /\ LoadSearch = << <<"sort", "bogus">>, <<"sort", "year">>, <<"order", "desc">> >>
    /\ log = <<"artist">>
    /\ index = 2
    /\ ParseSortFromURL(entries[index].search) = [column |-> "artist", order |-> "asc"]

\* C4: parseSortFromURL gives a column only when `sort` is one of the three
\* columns and the order, defaulted to asc when absent or empty, is asc or
\* desc, and then gives exactly these two; for every other query string it
\* gives {column: null, order: asc}, and the page opened with such a query
\* string is unsorted and shows the songs in load order, the address bar
\* untouched.
C4_InvalidURLUnsorted ==
    /\ \A i \in DOMAIN entries :
          LET sort == SearchParamsGet(entries[i].search, "sort")
              got == SearchParamsGet(entries[i].search, "order")
              order == IF got = <<>> \/ got = <<"">> THEN "asc" ELSE got[1]
              valid == sort # <<>> /\ sort[1] \in SortColumn /\ order \in {"asc", "desc"}
              parsed == ParseSortFromURL(entries[i].search)
          IN  /\ valid => parsed = [column |-> sort[1], order |-> order]
              /\ ~ valid => parsed = [column |-> Null, order |-> "asc"]
    /\ (JustLoaded /\ LoadedUnsorted) =>
          /\ currentSortColumn = Null
          /\ currentSortOrder = "none"
          /\ TBODY \in present => rows = [i \in DOMAIN songs |-> RowOf(songs[i])]
          /\ entries = <<InitialLocation(LoadSearch)>>

\* The page was opened with ?sort=Year&order=asc (wrong case) and rendered.
C4_Witness ==
    /\ JustLoaded
    /\ LoadSearch = << <<"sort", "Year">>, <<"order", "asc">> >>
    /\ songs = songsJson
    /\ rows = <<RowOf(songs[1]), RowOf(songs[2]), RowOf(songs[3])>>

\* The load handler's sortByColumn(c) call finds every element it needs.
LoadSorts(c, d) ==
    /\ JustLoaded
    /\ RunsToCompletion(c)
    /\ currentSortColumn = c
    /\ currentSortOrder = d
    /\ rows = RenderTable(ArraySort(songs, c, d))
    /\ InOrder(rows, c, d)

\* C5 as stated: with `sort` a valid column and `order` missing or not one
\* of asc/desc, the page loads sorted by that column ascending.
C5_OrderDefaultsToAsc ==
    \A c \in SortColumn :
        LET got == SearchParamsGet(LoadSearch, "order")
        IN  ( /\ JustLoaded
              /\ RunsToCompletion(c)
              /\ SearchParamsGet(LoadSearch, "sort") = <<c>>
              /\ (got = <<>> \/ got[1] \notin validOrders) )
            => LoadSorts(c, "asc")

\* C5 amended: with `sort` a valid column, the page loads sorted by that
\* column ascending when `order` is missing or empty, and loads unsorted, the
\* songs in load order, when `order` is any other value that is not asc or
\* desc.
C5_OrderMissingOrEmptyIsAsc ==
    \A c \in SortColumn :
        LET got == SearchParamsGet(LoadSearch, "order")
        IN  ( /\ JustLoaded
              /\ RunsToCompletion(c)
              /\ SearchParamsGet(LoadSearch, "sort") = <<c>> )
            => /\ (got = <<>> \/ got = <<"">>) => LoadSorts(c, "asc")
               /\ (got # <<>> /\ got # <<"">> /\ got[1] \notin validOrders) =>
                     /\ currentSortColumn = Null
                     /\ currentSortOrder = "none"
                     /\ rows = [i \in DOMAIN songs |-> RowOf(songs[i])]

\* The page was opened with ?sort=year&order= and shows the years ascending.
C5_Witness ==
    /\ JustLoaded
    /\ LoadSearch = << <<"sort", "year">>, <<"order", "">> >>
    /\ currentSortColumn = "year"
    /\ currentSortOrder = "asc"
    /\ songs = songsJson
    /\ rows = <<RowOf(songs[1]), RowOf(songs[3]), RowOf(songs[2])>>

\* C6: opened with a valid (c, d) in the address bar, and the load handler's
\* sortByColumn(c) finding the elements it needs, the page is in state (c, d)
\* and shows the songs sorted by c in direction d before any activation, for
\* both branches of the priming.
C6_LoadAppliesURL ==
    \A c \in SortColumn, d \in validOrders :
        ( /\ JustLoaded
          /\ RunsToCompletion(c)
          /\ SearchParamsGet(LoadSearch, "sort") = <<c>>
          /\ SearchParamsGet(LoadSearch, "order") = <<d>> )
        => LoadSorts(c, d)

\* ?sort=artist&order=desc shows Michael Jackson, Guns N' Roses, Bon Jovi.
C6_Witness ==
    /\ JustLoaded
    /\ LoadSearch = << <<"sort", "artist">>, <<"order", "desc">> >>
    /\ currentSortColumn = "artist"
    /\ currentSortOrder = "desc"
    /\ songs = songsJson
    /\ rows = <<RowOf(songs[1]), RowOf(songs[2]), RowOf(songs[3])>>

\* A step in which sortByColumn ran to completion: an activation that
\* sorted, or the load handler's call.
Sorted ==
    \/ log' # log
    \/ /\ phase = "loading"
       /\ phase' = "ready"
       /\ ~ LoadedUnsorted
       /\ RunsToCompletion(ParseSortFromURL(LoadSearch).column)

\* C7: a sortByColumn that ran to completion leaves a column active, and
\* once a column is active every later state has a column active with
\* direction asc or desc: no step goes back to the unsorted state.
C7_NeverUnsortedAgain ==
    [][(Sorted \/ Active) => Active']_vars

\* Two activations of the same column later, a column is still active.
C7_Witness ==
    /\ Len(log) >= 2
    /\ log[1] = log[2]
    /\ Active
    /\ currentSortOrder = "desc"

\* C8: between events the state is one of seven: (null, none), or (c, asc),
\* (c, desc) for a column c.
C8_SevenStates ==
    phase = "ready" =>
        \/ currentSortColumn = Null /\ currentSortOrder = "none"
        \/ currentSortColumn \in SortColumn /\ currentSortOrder \in validOrders

\* C9: the rows shown are the rows of the songs, each as often as the song is
\* in the store, in some order; and a page that has all its elements shows
\* rows once the load handler has run.
C9_RowsArePermutation ==
    /\ rows # Unrendered =>
          /\ Len(rows) = Len(songs)
          /\ Multiset(rows) = Multiset([i \in DOMAIN songs |-> RowOf(songs[i])])
    /\ (phase = "ready" /\ present = Elements) => rows # Unrendered

\* A store holding a record twice, its rows reordered by a sort.
C9_Witness ==
    /\ log # << >>
    /\ Len(songs) = 5
    /\ songs[1] = songs[5]
    /\ rows # Unrendered
    /\ rows # [i \in DOMAIN songs |-> RowOf(songs[i])]

\* C10: no step changes the songs array, neither its order nor a record.
C10_StoreNeverChanges ==
    [][songs' = songs]_vars

\* A sort has shown the rows in another order than the store's.
C10_Witness ==
    /\ log # << >>
    /\ songs = songsJson
    /\ rows = <<RowOf(songs[1]), RowOf(songs[3]), RowOf(songs[2])>>
    /\ currentSortColumn = "year"


\* The rows the table shows for a store and a sort state: the store's rows
\* in load order without an active column, else ordered on the column's cell
\* in the state's direction, rows with equal cells in load order.
IsViewOf(r, store, column, order) ==
    LET key(i) == RowOf(store[i])[Cell(column)]
        Before(j, i) ==
            IF column = Null THEN j < i
            ELSE IF key(j) = key(i) THEN j < i
            ELSE IF order = "asc" THEN KeyLeq(key(j), key(i), column)
                 ELSE KeyLeq(key(i), key(j), column)
        Place(i) ==
            1 + Cardinality({j \in DOMAIN store \ {i} : Before(j, i)})
    IN  /\ Len(r) = Len(store)
        /\ \A i \in DOMAIN store : r[Place(i)] = RowOf(store[i])

\* C11: the rows shown are determined by the store and the sort state alone,
\* whatever activations led to the state: with a column active they are the
\* songs sorted on it in the state's direction, and in the unsorted state
\* they are the songs in load order.
C11_RowsAreFunctionOfState ==
    rows # Unrendered =>
        /\ Active \/ (currentSortColumn = Null /\ currentSortOrder = "none")
        /\ IsViewOf(rows, songs, currentSortColumn, currentSortOrder)
        /\ Active => rows = RenderTable(ArraySort(songs, currentSortColumn,
                                                  currentSortOrder))

\* (year, asc) reached by song then year after a load with artist descending:
\* the rows are those of year ascending.
C11_Witness ==
    /\ ParseSortFromURL(LoadSearch) = [column |-> "artist", order |-> "desc"]
    /\ log = <<"song", "year">>
    /\ currentSortColumn = "year"
    /\ currentSortOrder = "asc"
    /\ Len(songs) = 5
    /\ rows = <<RowOf(songs[4]), RowOf(songs[1]), RowOf(songs[2]),
                RowOf(songs[5]), RowOf(songs[3])>>


Reverse(q) == [i \in 1..Len(q) |-> q[Len(q) + 1 - i]]

\* No two records of the store have the same value in the column's field.
NoTies(store, column) ==
    \A i, j \in DOMAIN store :
        i # j => RowOf(store[i])[Cell(column)] # RowOf(store[j])[Cell(column)]

\* The table shows the completed descending sort on column c.
ShowsDescending(c) ==
    /\ rows # Unrendered
    /\ currentSortColumn = c
    /\ currentSortOrder = "desc"

\* C12 as stated: for every column and every store, stores in which records
\* share a key value included, the descending view is the exact reverse of
\* the ascending view.
C12_DescendingIsReverse ==
    \A c \in SortColumn :
        ShowsDescending(c) =>
            rows = Reverse(RenderTable(ArraySort(songs, c, "asc")))

\* C12 amended: for every column and every store in which no two records
\* share a value of the column's key, the descending view is the exact
\* reverse of the ascending view.
C12_DescendingIsReverseWithoutTies ==
    \A c \in SortColumn :
        (ShowsDescending(c) /\ NoTies(songs, c)) =>
            rows = Reverse(RenderTable(ArraySort(songs, c, "asc")))

\* The three songs by year descending: 1987, 1986, 1982.
C12_Witness ==
    /\ ShowsDescending("year")
    /\ songs = songsJson
    /\ NoTies(songs, "year")
    /\ rows = <<RowOf(songs[2]), RowOf(songs[3]), RowOf(songs[1])>>


\* Parsing the address bar gives the sort state held in memory: the active
\* column and its direction, or no column when the state is unsorted.
AddressBarIsState ==
    LET parsed == ParseSortFromURL(entries[index].search)
    IN  IF currentSortColumn = Null /\ currentSortOrder = "none"
        THEN parsed = [column |-> Null, order |-> "asc"]
        ELSE parsed = [column |-> currentSortColumn, order |-> currentSortOrder]

\* The load handler has run to its end: the page was opened unsorted, or the
\* handler's sortByColumn call found the elements it needs.
LoadCompleted ==
    /\ phase = "ready"
    /\ LoadedUnsorted \/ RunsToCompletion(ParseSortFromURL(LoadSearch).column)

\* C13: after the load and after every activation that sorted, parsing the
\* address bar gives the sort state in memory; while the state is unsorted
\* the address bar parses to the unsorted default.
C13_AddressBarFollowsState ==
    /\ [] ((JustLoaded /\ LoadCompleted) => AddressBarIsState)
    /\ [] ((phase = "ready" /\ currentSortColumn = Null /\ currentSortOrder = "none")
              => ParseSortFromURL(entries[index].search).column = Null)
    /\ [][log' # log => AddressBarIsState']_vars

\* Year was activated on a page opened with ?sort=song&order=bogus&order=desc:
\* the address bar now parses to (year, asc).
C13_Witness ==
    /\ LoadSearch = << <<"sort", "song">>, <<"order", "bogus">>, <<"order", "desc">> >>
    /\ log = <<"year">>
    /\ index = 2
    /\ currentSortColumn = "year"
    /\ currentSortOrder = "asc"
    /\ entries[index].search = << <<"sort", "year">>, <<"order", "asc">> >>

\* The user has gone back in the session history.
WentBack == phase = "ready" /\ index < Len(entries)

\* C14: after going back or forward through the history entries pushed by
\* toggles, the sort state in memory, the header indicators and the rows
\* correspond to the sort and order parameters in the address bar.
C14_BackForwardRestoresSort ==
    WentBack =>
        LET parsed == ParseSortFromURL(entries[index].search)
        IN  /\ AddressBarIsState
            /\ rows # Unrendered
            /\ IsViewOf(rows, songs, parsed.column, parsed.order)
            /\ \A c \in SortColumn :
                  ariaSort[c] = IF c # parsed.column THEN "none"
                                ELSE IF parsed.order = "asc" THEN "ascending"
                                ELSE "descending"


\* sortByColumn has run to completion at least once: by an activation, or in
\* the load handler.
HasSorted ==
    \/ log # << >>
    \/ /\ phase = "ready"
       /\ ~ LoadedUnsorted
       /\ RunsToCompletion(ParseSortFromURL(LoadSearch).column)

\* C15: once sortByColumn has run to completion, the header of the active
\* column has aria-sort ascending with an up arrow or descending with a down
\* arrow, as the direction is, and every other header has aria-sort none and
\* an empty indicator: never two columns with an indicator.
C15_OneActiveIndicator ==
    HasSorted =>
        /\ Active
        /\ \A c \in SortColumn :
              IF c = currentSortColumn
              THEN /\ ariaSort[c] = IF currentSortOrder = "asc"
                                    THEN "ascending" ELSE "descending"
                   /\ IndicatorId(c) \in present =>
                         indicator[c] = IF currentSortOrder = "asc"
                                        THEN " up" ELSE " down"
              ELSE /\ ariaSort[c] = "none"
                   /\ indicator[c] = ""

\* Song was sorted descending, then year was activated: only year shows an
\* indicator.
C15_Witness ==
    /\ ParseSortFromURL(LoadSearch) = [column |-> "song", order |-> "desc"]
    /\ present = Elements
    /\ log = <<"year">>
    /\ ariaSort = [c \in SortColumn |-> IF c = "year" THEN "ascending" ELSE "none"]
    /\ indicator = [c \in SortColumn |-> IF c = "year" THEN " up" ELSE ""]


\* Every record has the three fields of Song.
WellFormed(store) ==
    \A i \in DOMAIN store : DOMAIN store[i] = {"name", "artist", "year"}

\* C16: with a record list that is malformed (a record missing name, artist
\* or year) the page never renders rows: it fails at load.
C16_MalformedNeverRendered ==
    ~ WellFormed(songs) => rows = Unrendered


\* The page t is the page after one call of sortByColumn(c) that ran to
\* completion from the current state: c is active in the direction the
\* toggle rule gives, one history entry carrying (c, direction) was pushed
\* and is the current one, and the rows are the songs sorted accordingly.
SortedOnce(t, c) ==
    LET d == IF currentSortColumn = c /\ currentSortOrder = "asc"
             THEN "desc" ELSE "asc"
    IN  /\ t.currentSortColumn = c
        /\ t.currentSortOrder = d
        /\ t.index = index + 1
        /\ Len(t.entries) = t.index
        /\ SubSeq(t.entries, 1, index) = SubSeq(entries, 1, index)
        /\ ParseSortFromURL(t.entries[t.index].search) = [column |-> c, order |-> d]
        /\ IsViewOf(t.rows, songs, c, d)

\* The tbody, the live region and the table are in the document.
HasContainers == {TBODY, ANNOUNCEMENTS, TABLE} \subseteq present

\* A further activation is within the bound of the model.
MayToggle == phase = "ready" /\ Len(log) < MaxToggles

\* C17: an element that is missing never ends the session.  Every header
\* that is in the document has its listeners, whichever other header is
\* missing; an activation of such a column, with tbody, live region and
\* table in the document, sorts: state, address bar and rows are updated,
\* also when another header or an indicator is missing; and with one of
\* these three missing the call is skipped and the page stays as it is, so
\* that the next activation is handled the same way.
C17_MissingElementSkipsCall ==
    phase = "ready" =>
        /\ listeners = {c \in SortColumn : HeaderId(c) \in present}
        /\ \A c \in listeners :
              IF HasContainers
              THEN SortedOnce(SortByColumn(Page, c), c)
              ELSE SortByColumn(Page, c) = Page

\* The artist header is missing; year was activated and is sorted.
C17_Witness ==
    /\ HeaderId("artist") \notin present
    /\ listeners = {"song", "year"}
    /\ log = <<"year">>
    /\ currentSortColumn = "year"
    /\ index = Len(entries)
    /\ ParseSortFromURL(entries[index].search).column = "year"

\* C18: a click on the header of column c, Enter on it and Space on it each
\* make one sortByColumn(c) call: the three leave the same page, with one
\* history entry pushed when the call runs to completion; any other key on
\* a header changes nothing.
C18_ClickEnterSpaceAlike ==
    phase = "ready" =>
        \A c \in listeners :
            /\ KeyDownListener(Page, c, "Enter") = SortByColumn(Page, c)
            /\ KeyDownListener(Page, c, " ") = SortByColumn(Page, c)
            /\ RunsToCompletion(c) =>
                  /\ KeyDownListener(Page, c, "Enter").index = index + 1
                  /\ KeyDownListener(Page, c, " ").index = index + 1
            /\ \A key \in Keys \ {"Enter", " "} :
                  KeyDownListener(Page, c, key) = Page

\* A header was activated once on a complete page and the column is sorted
\* ascending; a further activation is possible.
C18_Witness ==
    /\ present = Elements
    /\ LoadedUnsorted
    /\ log = <<"song">>
    /\ currentSortColumn = "song"
    /\ currentSortOrder = "asc"
    /\ MayToggle


\* C19: between the load of the page and the first activation that sorts,
\* nothing is written to the address bar and no history entry is added: the
\* session history still holds the one entry the page was opened with.
C19_NoWriteBeforeFirstToggle ==
    JustLoaded => Len(entries) = 1

\* The years the table shows, top to bottom.
Years == [i \in DOMAIN rows |-> rows[i][Cell("year")]]

\* C20: with the store of songs.json (Billie Jean 1982, Sweet Child O' Mine
\* 1987, Livin' on a Prayer 1986) opened unsorted, the first activation of
\* year shows the years 1982, 1986, 1987 and the second one 1987, 1986, 1982.
C20_YearScenario ==
    songs = songsJson /\ phase = "ready" /\ LoadedUnsorted =>
        /\ log = <<"year">> => Years = <<1982, 1986, 1987>>
        /\ log = <<"year", "year">> => Years = <<1987, 1986, 1982>>

\* Year was activated twice on the unsorted songs.json page and the table
\* starts with the 1987 song.
C20_Witness ==
    /\ songs = songsJson
    /\ LoadedUnsorted
    /\ log = <<"year", "year">>
    /\ currentSortColumn = "year"
    /\ currentSortOrder = "desc"
    /\ rows[1] = RowOf(songs[2])


\* searchParams.getAll(name): the values of the pairs with that name.
Values(search, name) ==
    LET named == SelectSeq(search, LAMBDA pair : pair[1] = name)
    IN  [i \in DOMAIN named |-> named[i][2]]

\* The arguments of the latest updateSortURL call and the address it left.
CalledColumn == log[Len(log)][1]
CalledOrder == log[Len(log)][2]
Address == entries[index].search

SortState == <<currentSortColumn, currentSortOrder>>

C23_AbortChangesNothing ==
    [][/\ phase = "loading" =>
             LET urlSort == ParseSortFromURL(entries[index].search)
             IN  (urlSort.column # Null /\ ~ RunsToCompletion(urlSort.column))
                     => Page' = Primed(Page, urlSort)
       /\ (phase = "ready" /\ log' = log /\ index' = index) => Page' = Page]_vars


\* The number of times the last element of q is repeated at its end.
RECURSIVE TrailingRun(_)
TrailingRun(q) ==
    IF Len(q) <= 1 THEN Len(q)
    ELSE IF q[Len(q) - 1] # q[Len(q)] THEN 1
    ELSE 1 + TrailingRun(Front(q))

\* The column the activations before the trailing run left active: another
\* column of the log, or what the page was loaded with.
ColumnBeforeRun ==
    IF TrailingRun(log) < Len(log)
    THEN log[Len(log) - TrailingRun(log)]
    ELSE ParseSortFromURL(LoadSearch).column

\* C24: repeated activations of one column alternate strictly.  When the
\* last n >= 1 activations were all of column c and c was not the active
\* column before them, the state is (c, asc) for odd n and (c, desc) for
\* even n: ascending, descending, ascending, ...
C24_StrictAlternation ==
    (phase = "ready" /\ log # << >> /\ ColumnBeforeRun # Last(log)) =>
        /\ currentSortColumn = Last(log)
        /\ currentSortOrder =
              IF TrailingRun(log) % 2 = 1 THEN "asc" ELSE "desc"

\* Song was activated, then artist three times: artist is ascending again.
C24_Witness ==
    /\ log = <<"song", "artist", "artist", "artist">>
    /\ currentSortColumn = "artist"
    /\ currentSortOrder = "asc"
    /\ ariaSort["artist"] = "ascending"


\* C25: until DOMContentLoaded has fired no header has a listener, no row is
\* rendered, the sort state is (null, none) and nothing of the page or the
\* history has been touched, for as long as the signal stays away; and rows
\* are only ever shown on a page whose headers have their listeners: all
\* three columns when the three headers are in the document.
C25_NothingBeforeDOMContentLoaded ==
    /\ phase = "loading" =>
          /\ listeners = {}
          /\ rows = Unrendered
          /\ SortState = <<Null, "none">>
          /\ Len(entries) = 1 /\ index = 1
          /\ ariaSort = [c \in SortColumn |-> "none"]
          /\ indicator = [c \in SortColumn |-> ""]
          /\ classList = {} /\ announcement = << >>
    /\ rows # Unrendered =>
          /\ phase = "ready"
          /\ listeners = {c \in SortColumn : HeaderId(c) \in present}
          /\ (\A c \in SortColumn : HeaderId(c) \in present) => listeners = SortColumn

\* The signal has fired on a complete page: three listeners, rows shown.
C25_Witness ==
    /\ JustLoaded
    /\ present = Elements
    /\ listeners = SortColumn
    /\ songs = songsJson
    /\ rows = RenderTable(songs)


\* The words of the announcement.
Announced == {announcement[i] : i \in DOMAIN announcement}

\* What the announcement calls a column and a direction.
ColumnWords == [song |-> "song name", artist |-> "artist name", year |-> "release year"]
OrderWords == [asc |-> "ascending", desc |-> "descending"]

\* C26: after every activation that sorts, the text of the live region
\* names the column that is now active, and no other column, and the
\* direction that is now current, and not the other one.
C26_AnnouncementDescribesState ==
    (phase = "ready" /\ log # << >>) =>
        /\ Active
        /\ \A c \in SortColumn :
              ColumnWords[c] \in Announced <=> c = currentSortColumn
        /\ \A d \in validOrders :
              OrderWords[d] \in Announced <=> d = currentSortOrder

\* Artist was activated twice: the live region says artist name, descending.
C26_Witness ==
    /\ log = <<"artist", "artist">>
    /\ SortState = <<"artist", "desc">>
    /\ announcement = <<"Table sorted by ", "artist name", " in ", "descending", " order">>


\* The step pushed one entry onto the session history: the entries up to the
\* current one are kept, one is added behind them and is the current one,
\* and it carries the sort state the step left in memory.
PushedOne ==
    /\ index' = index + 1
    /\ Len(entries') = index + 1
    /\ SubSeq(entries', 1, index) = SubSeq(entries, 1, index)
    /\ Values(entries'[index'].search, "sort") = <<currentSortColumn'>>
    /\ Values(entries'[index'].search, "order") = <<currentSortOrder'>>
    /\ entries'[index'].pathname = entries[index].pathname
    /\ entries'[index'].origin = entries[index].origin

\* The step is the load handler making a sortByColumn call that runs to
\* completion.
LoadSortsNow ==
    /\ phase = "loading" /\ phase' = "ready"
    /\ ParseSortFromURL(entries[index].search).column # Null
    /\ RunsToCompletion(ParseSortFromURL(entries[index].search).column)

\* C27: each sortByColumn call that runs to completion, a listener's or the
\* load handler's, pushes exactly one history entry, which carries the new
\* sort and order; the page is not loaded again by it: it stays ready with
\* the listeners it had, the sort state just set is in memory, and the
\* history never holds more than the entry the page was opened with and
\* one entry per completed call (fewer after a push from an entry gone
\* back to, which drops the entries ahead of it).
C27_OneEntryPerSort ==
    /\ [][/\ (\E c \in SortColumn : log' = Append(log, c)) =>
                /\ PushedOne
                /\ phase' = "ready"
                /\ listeners' = listeners
                /\ currentSortColumn' = Last(log')
                /\ currentSortOrder' \in validOrders
          /\ LoadSortsNow => PushedOne /\ Active']_vars
    /\ [] (phase = "ready" =>
              Len(entries) <= 1 + Len(log)
                                + (IF ~ LoadedUnsorted /\ LoadCompleted THEN 1 ELSE 0))

\* Loaded at ?sort=year&order=asc and activated song, then artist: three
\* entries pushed behind the first, the page still ready with its listeners.
C27_Witness ==
    /\ LoadSearch = << <<"sort", "year">>, <<"order", "asc">> >>
    /\ log = <<"song", "artist">>
    /\ Len(entries) = 4 /\ index = 4
    /\ phase = "ready" /\ listeners = SortColumn


\* The documented range of the years.
Eighties == 1980..1989

\* The table shows the songs of the store sorted by the state in memory.
ShowsSorted == phase = "ready" /\ HasSorted /\ WellFormed(songs)

\* C28: a record whose year is not in 1980-1989 is shown like any other,
\* with its year as it is in the store; sorted by year the rows are in the
\* order of the years as numbers, non-decreasing when ascending and
\* non-increasing when descending, whatever integers they are; sorted by
\* song or artist they are in the order of the names as strings.
C28_YearsNumericNamesText ==
    /\ (rows # Unrendered /\ WellFormed(songs)) =>
          /\ Len(rows) = Len(songs)
          /\ \A i \in DOMAIN songs :
                \E j \in DOMAIN rows :
                    rows[j] = <<songs[i].name, songs[i].artist, songs[i].year>>
    /\ ShowsSorted =>
          \A i, j \in DOMAIN rows :
              i < j =>
                  LET a == rows[i]
                      b == rows[j]
                  IN  CASE currentSortColumn = "year" ->
                              IF currentSortOrder = "asc"
                              THEN a[3] <= b[3] ELSE a[3] >= b[3]
                        [] currentSortColumn = "song" ->
                              IF currentSortOrder = "asc"
                              THEN LocaleCompare(a[1], b[1]) <= 0
                              ELSE LocaleCompare(a[1], b[1]) >= 0
                        [] currentSortColumn = "artist" ->
                              IF currentSortOrder = "asc"
                              THEN LocaleCompare(a[2], b[2]) <= 0
                              ELSE LocaleCompare(a[2], b[2]) >= 0

\* Sorted by year ascending, the song of 979 is shown first and the song of
\* 1991 last, the three songs of 1982 between them.
C28_Witness ==
    /\ ShowsSorted
    /\ log # << >>
    /\ SortState = <<"year", "asc">>
    /\ Len(rows) = 5
    /\ rows[1][3] = 979 /\ rows[1][3] \notin Eighties
    /\ rows[5][3] = 1991 /\ rows[5][3] \notin Eighties
    /\ rows[2][3] = 1982


\* The rows of r whose cell in the column is k, in the order they have in r.
WithKey(r, column, k) == SelectSeq(r, LAMBDA row : row[Cell(column)] = k)

\* The rows of the store in load order.
LoadOrder == [i \in DOMAIN songs |-> RowOf(songs[i])]

\* C29: in the ascending and in the descending view of a column alike, the
\* records that share a key value are shown in the order they have in the
\* store: for every key, the rows with that key are the store's rows with
\* that key, in load order.
C29_TiesKeepLoadOrder ==
    ShowsSorted =>
        \A i \in DOMAIN songs :
            LET k == LoadOrder[i][Cell(currentSortColumn)]
            IN  WithKey(rows, currentSortColumn, k)
                    = WithKey(LoadOrder, currentSortColumn, k)

\* Sorted by year descending, the songs of 1982 are shown as the store lists
\* them: Rosanna, Africa, Rosanna, behind 1991 and before 979.
C29_Witness ==
    /\ ShowsSorted
    /\ SortState = <<"year", "desc">>
    /\ Len(songs) = 5
    /\ rows = <<RowOf(songs[3]), RowOf(songs[1]), RowOf(songs[2]),
                RowOf(songs[5]), RowOf(songs[4])>>
    /\ songs[1].year = songs[2].year
    /\ songs[1].name # songs[2].name


\* The parameters of a query string other than sort and order, in order.
OtherParams(search) ==
    SelectSeq(search, LAMBDA pair : pair[1] \notin {"sort", "order"})

\* The step is a sortByColumn call that ran to completion.
SortsNow == LoadSortsNow \/ \E c \in SortColumn : log' = Append(log, c)

\* C30: a toggle leaves every query parameter other than sort and order as
\* it was, names, values and order, and leaves the path and the origin of
\* the address as they were; what it writes is one sort and one order
\* parameter.
C30_OnlySortAndOrderChange ==
    [][SortsNow =>
          /\ OtherParams(entries'[index'].search) = OtherParams(entries[index].search)
          /\ entries'[index'].pathname = entries[index].pathname
          /\ entries'[index'].origin = entries[index].origin
          /\ Len(entries'[index'].search)
                = Len(OtherParams(entries[index].search)) + 2]_vars

\* Year was activated on ?page=2&sort=artist&order=DESC&q=a: page and q are
\* where they were, sort and order are rewritten in place.
C30_Witness ==
    /\ log = <<"year">>
    /\ entries[1].search
          = << <<"page", "2">>, <<"sort", "artist">>, <<"order", "DESC">>, <<"q", "a">> >>
    /\ index = 2
    /\ entries[2].search
          = << <<"page", "2">>, <<"sort", "year">>, <<"order", "asc">>, <<"q", "a">> >>
    /\ entries[2].pathname = entries[1].pathname


\* C31: a page opened with no sort state in the address bar, or with one
\* that is not valid, keeps its address: the load handler pushes nothing and
\* rewrites nothing, the history holds the one entry the page was opened
\* with, invalid parameters included, until an activation sorts; that first
\* activation pushes an address in which sort is the column activated and
\* order is asc, once each, in the place of whatever sort and order
\* parameters there were.
C31_InvalidAddressKeptUntilToggle ==
    /\ [][(phase = "loading"
             /\ ParseSortFromURL(entries[index].search).column = Null)
            => entries' = entries /\ index' = index]_vars
    /\ [] ((JustLoaded /\ LoadedUnsorted) => Len(entries) = 1 /\ index = 1)
    /\ [][\A c \in SortColumn :
             (LoadedUnsorted /\ log = << >> /\ log' = <<c>>) =>
                 /\ entries'[1] = entries[1]
                 /\ Len(entries') = 2 /\ index' = 2
                 /\ Values(entries'[2].search, "sort") = <<c>>
                 /\ Values(entries'[2].search, "order") = <<"asc">>
                 /\ OtherParams(entries'[2].search) = OtherParams(entries[1].search)]_vars

\* Opened at ?sort=year&order=bogus and song activated: the first entry
\* still carries the invalid order, the second one song and asc.
C31_Witness ==
    /\ log = <<"song">>
    /\ index = 2
    /\ entries[1].search = << <<"sort", "year">>, <<"order", "bogus">> >>
    /\ entries[2].search = << <<"sort", "song">>, <<"order", "asc">> >>

\* The sorting-* classes the table element carries.
TableSortingClasses == classList \cap SortingClasses

\* C32: after every activation that sorts, the table carries exactly one of
\* sorting-song, sorting-artist and sorting-year, the class of the active
\* column; after a load without a usable sort state it carries none of the
\* three, whichever classes the markup gave the table (the unsorted load
\* and updateTableClasses are also applied to every set of classes the
\* table may start with).
C32_OneSortingClass ==
    /\ (phase = "ready" /\ log # << >>) =>
          /\ currentSortColumn \in SortColumn
          /\ TableSortingClasses = {SortingClass(currentSortColumn)}
    /\ (JustLoaded /\ LoadedUnsorted /\ TABLE \in present) =>
          TableSortingClasses = {}
    /\ (phase = "loading" /\ TABLE \in present) =>
          \A classes \in SUBSET (SortingClasses \cup {"striped"}) :
              /\ RenderUnsorted([Page EXCEPT !.classList = classes]).classList
                    = classes \ SortingClasses
              /\ \A c \in SortColumn :
                    UpdateTableClasses(classes, c) \cap SortingClasses
                        = {SortingClass(c)}

\* Artist was activated after year: sorting-artist is the only class.
C32_Witness ==
    /\ log = <<"year", "artist">>
    /\ currentSortColumn = "artist"
    /\ classList = {"sorting-artist"}

====
